---- MODULE Spec2Model ----
(***************************************************************************)
(* Bounty entry service (src/src/server/services/bountyEntry.service.ts): *)
(* awardBountyEntry, deleteBountyEntry, upsertBountyEntry and             *)
(* getBountyEntryFilteredFiles as requests running concurrently against   *)
(* one database.                                                           *)
(*                                                                         *)
(* Database semantics assumed for the statements of the source:           *)
(*  - a $transaction callback runs statement by statement; every read     *)
(*    sees the rows committed at the moment of the read (READ COMMITTED,  *)
(*    the default when $transaction gets no isolationLevel, line 121);    *)
(*  - an UPDATE takes the row's lock until commit or rollback, another    *)
(*    writer of the same row waits for it and then updates the committed  *)
(*    row; the writes of a transaction become visible at its commit;      *)
(*  - dbRead observes every committed write (spec 4.1 step 3:             *)
(*    "read-after-write");                                                 *)
(*  - a statement changes the rows it names and no others.                *)
(***************************************************************************)
EXTENDS Integers, Sequences, FiniteSets, TLC

\* ---------------------------------------------------------------- bounds
NumCalls == 2
MaxEntryId == 3
MaxImageId == 2

\* ------------------------------------------------------------- constants
Null == 0
SystemAccount == 0
Date == 1
Undefined == -1

Calls == 1..NumCalls
Users == {1, 2}
Bounties == {1, 2}
EntryIds == 1..MaxEntryId
Currencies == {"BUZZ", "USD"}
FileNames == {"f1"}
NullUrl == "null"

VARIABLES
    bountyEntry,       \* table BountyEntry: id -> [bountyId, userId]
    nextEntryId,       \* autoincrement of BountyEntry.id
    file,              \* table File: set of [entityId, name, url, benefactorsOnly, unlockAmount]
    imageConnection,   \* table ImageConnection: set of [entityId, imageId]
    image,             \* table Image: set of image ids
    nextImageId,       \* autoincrement of Image.id
    bountyBenefactor,  \* table BountyBenefactor: <<bountyId, userId>> -> row or NoRow
    bounty,            \* table Bounty: id -> [complete]
    buzzTransactions,  \* the payment ledger: sequence of transfers
    pc,                \* each request's position
    arg,               \* each request's input
    local,             \* each request's local constants (entry, updatedBenefactor,
                       \* benefactor, files)
    result,            \* each request's outcome
    observed           \* what held when each request arrived (read by the properties only)

vars == <<bountyEntry, nextEntryId, file, imageConnection, image, nextImageId,
          bountyBenefactor, bounty, buzzTransactions, pc, arg, local, result,
          observed>>

db == <<bountyEntry, nextEntryId, file, imageConnection, image, nextImageId,
        bountyBenefactor, bounty, buzzTransactions>>

NoRow == [unitAmount |-> 0, currency |-> "none", awardedToId |-> Null, awardedAt |-> Null]
Pledge(unitAmount, currency) ==
    [unitAmount |-> unitAmount, currency |-> currency, awardedToId |-> Null,
     awardedAt |-> Null]
NoArg == [op |-> "none", id |-> Null, userId |-> Null, isModerator |-> FALSE]
NoLocal == [bountyId |-> Null, userId |-> Null, currency |-> "none", unitAmount |-> 0,
            awardedAt |-> Null, benefactor |-> NoRow, files |-> {}]

\* A File row of entity entityId; metadata is { benefactorsOnly, unlockAmount },
\* unlockAmount = Undefined when the metadata has none.
FileRow(entityId, name, benefactorsOnly, unlockAmount) ==
    [entityId |-> entityId, name |-> name, url |-> name,
     benefactorsOnly |-> benefactorsOnly, unlockAmount |-> unlockAmount]

NoObserved == [row |-> "none", complete |-> FALSE, awarded |-> 0]

BenefactorKeys == Bounties \X Users

\* The tables as a query through dbRead sees them: every committed write.
dbRead == [bountyEntry |-> bountyEntry, bountyBenefactor |-> bountyBenefactor]

RowExists(k) == bountyBenefactor[k] # NoRow

RECURSIVE SumUnitAmount(_)
SumUnitAmount(keys) ==
    IF keys = {} THEN 0
    ELSE LET k == CHOOSE x \in keys : TRUE
         IN bountyBenefactor[k].unitAmount + SumUnitAmount(keys \ {k})

\* getBountyEntryEarnedBuzz: one result row per existing entry of ids, with the
\* sum of unitAmount over the benefactors of that currency awarded to it
\* (LEFT JOIN ... COALESCE(SUM, 0)); no row for an id that is no entry.
getBountyEntryEarnedBuzz(ids, currency) ==
    [id \in ids \cap DOMAIN dbRead.bountyEntry |->
        SumUnitAmount({k \in BenefactorKeys :
            /\ dbRead.bountyBenefactor[k] # NoRow
            /\ dbRead.bountyBenefactor[k].awardedToId = id
            /\ dbRead.bountyBenefactor[k].currency = currency})]

BountyIsComplete_Omitted(bountyId) == FALSE

\* if (entry.bounty.complete)
BountyIsComplete(bountyId) == bounty[bountyId].complete

HasAwarded_Omitted(benefactor) == FALSE

\* if (benefactor.awardedToId)
HasAwarded(benefactor) == benefactor.awardedToId # Null

\* where: { awardedToId: null } without the bounty
unawardedBountyBenefactors_AnyBounty(bountyId) ==
    {k \in BenefactorKeys :
        /\ dbRead.bountyBenefactor[k] # NoRow
        /\ dbRead.bountyBenefactor[k].awardedToId = Null}

\* where: { awardedToId: null, userId: bountyId }
unawardedBountyBenefactors_WrongColumn(bountyId) ==
    {k \in BenefactorKeys :
        /\ dbRead.bountyBenefactor[k] # NoRow
        /\ dbRead.bountyBenefactor[k].awardedToId = Null
        /\ k[2] = bountyId}

\* findFirst({ where: { awardedToId: null, bountyId } })
unawardedBountyBenefactors(bountyId) ==
    {k \in BenefactorKeys :
        /\ dbRead.bountyBenefactor[k] # NoRow
        /\ dbRead.bountyBenefactor[k].awardedToId = Null
        /\ k[1] = bountyId}

\* data: { complete: !bounty.complete }
CompletedBounty_Toggled(bountyId) == [bounty[bountyId] EXCEPT !.complete = ~@]

\* dbWrite.bounty.update({ where: { id }, data: { complete: true } }): the new row.
CompletedBounty(bountyId) == [bounty[bountyId] EXCEPT !.complete = TRUE]

\* What a request finds on arrival about entry id and the row of userId in the
\* entry's bounty; awarded sums the pledges of every currency awarded to the entry.
Observe(id, userId) ==
    IF id \notin DOMAIN bountyEntry THEN NoObserved
    ELSE LET k == <<bountyEntry[id].bountyId, userId>> IN
         [row |-> IF userId = Null \/ ~RowExists(k) THEN "absent"
                  ELSE IF bountyBenefactor[k].awardedToId = Null THEN "unawarded"
                  ELSE "awarded",
          complete |-> bounty[bountyEntry[id].bountyId].complete,
          awarded |-> SumUnitAmount({x \in BenefactorKeys :
                          RowExists(x) /\ bountyBenefactor[x].awardedToId = id})]

\* if (award.awardedUnitAmount > 0)
HasBeenAwarded(awardedUnitAmount) == awardedUnitAmount > 0

\* The key of the row an award transaction works on.
KeyOf(p) == <<local[p].bountyId, arg[p].userId>>

\* Another transaction has updated the row and has not yet committed.
RowLocked(p) ==
    \E q \in Calls \ {p} :
        /\ pc[q] \in {"award_buzz", "award_commit"}
        /\ KeyOf(q) = KeyOf(p)

\* Requests are interchangeable: they are started in the order of their numbers.
CanBegin(p) == \A q \in Calls : q < p => pc[q] # "idle"

Return(p, r) ==
    /\ pc' = [pc EXCEPT ![p] = "done"]
    /\ result' = [result EXCEPT ![p] = r]

Goto(p, label) ==
    /\ pc' = [pc EXCEPT ![p] = label]
    /\ UNCHANGED result

TypeOK ==
    /\ DOMAIN bountyEntry \subseteq EntryIds
    /\ nextEntryId \in 1..(MaxEntryId + 1)
    /\ \A k \in BenefactorKeys : bountyBenefactor[k].awardedToId \in {Null} \cup EntryIds
    /\ bounty \in [Bounties -> [complete : BOOLEAN]]
    /\ pc \in [Calls -> {"idle", "done", "award_findBenefactor",
                         "award_update", "award_buzz", "award_commit", "award_check",
                         "award_complete", "delete_earned",
                         "delete_tx", "list_benefactor", "list_earned"}]
    /\ result \in [Calls -> {"none", "ok", "BadRequest", "NotFound", "Error"}]

Init ==
    /\ \E owner \in {Null, 2} :
         bountyEntry = (1 :> [bountyId |-> 1, userId |-> 2]) @@
                       (2 :> [bountyId |-> 1, userId |-> owner])
    /\ nextEntryId = 3
    /\ file = {FileRow(1, "f1", FALSE, Undefined)}
    /\ imageConnection = {[entityId |-> 1, imageId |-> 1]}
    /\ image = {1}
    /\ nextImageId = 2
    /\ \E c1 \in Currencies, r2 \in {NoRow, Pledge(50, "BUZZ")} :
         bountyBenefactor = [k \in BenefactorKeys |->
             IF k = <<1, 1>> THEN Pledge(50, c1)
             ELSE IF k = <<1, 2>> THEN r2
             ELSE IF k = <<2, 2>> THEN Pledge(50, "BUZZ")
             ELSE NoRow]
    /\ bounty = [b \in Bounties |-> [complete |-> FALSE]]
    /\ buzzTransactions = <<>>
    /\ pc = [p \in Calls |-> "idle"]
    /\ arg = [p \in Calls |-> NoArg]
    /\ local = [p \in Calls |-> NoLocal]
    /\ result = [p \in Calls |-> "none"]
    /\ observed = [p \in Calls |-> NoObserved]

\* ------------------------------------------------------ awardBountyEntry
\* The request arrives with { id, userId }; tx.bountyEntry.findUniqueOrThrow and
\* the two checks on the entry.
AwardFindEntry(p) ==
    /\ pc[p] = "idle"
    /\ CanBegin(p)
    /\ \E id \in EntryIds, userId \in Users :
         /\ arg' = [arg EXCEPT ![p] = [op |-> "award", id |-> id, userId |-> userId,
                                     isModerator |-> FALSE]]
         /\ observed' = [observed EXCEPT ![p] = Observe(id, userId)]
         /\ IF id \notin DOMAIN bountyEntry
            THEN Return(p, "NotFound") /\ UNCHANGED local
            ELSE LET entry == bountyEntry[id] IN
                 IF entry.userId = Null
                 THEN Return(p, "BadRequest") /\ UNCHANGED local
                 ELSE IF BountyIsComplete(entry.bountyId)
                 THEN Return(p, "BadRequest") /\ UNCHANGED local
                 ELSE /\ Goto(p, "award_findBenefactor")
                      /\ local' = [local EXCEPT ![p].bountyId = entry.bountyId,
                                                ![p].userId = entry.userId]
    /\ UNCHANGED db

\* findUnique instead of findUniqueOrThrow: with no row, benefactor is null and
\* reading benefactor.awardedToId throws a TypeError.
AwardFindBenefactor_NoThrow(p) ==
    /\ pc[p] = "award_findBenefactor"
    /\ IF ~RowExists(KeyOf(p))
       THEN Return(p, "Error")
       ELSE IF HasAwarded(bountyBenefactor[KeyOf(p)])
       THEN Return(p, "BadRequest")
       ELSE Goto(p, "award_update")
    /\ UNCHANGED <<db, arg, local, observed>>

\* tx.bountyBenefactor.findUniqueOrThrow and the check on awardedToId.
AwardFindBenefactor(p) ==
    /\ pc[p] = "award_findBenefactor"
    /\ IF ~RowExists(KeyOf(p))
       THEN Return(p, "NotFound")
       ELSE IF HasAwarded(bountyBenefactor[KeyOf(p)])
       THEN Return(p, "BadRequest")
       ELSE Goto(p, "award_update")
    /\ UNCHANGED <<db, arg, local, observed>>

\* The update followed by createBuzzTransaction whatever the currency.
AwardUpdate_NoSwitch(p) ==
    /\ pc[p] = "award_update"
    /\ ~RowLocked(p)
    /\ LET row == bountyBenefactor[KeyOf(p)] IN
       /\ local' = [local EXCEPT ![p].currency = row.currency,
                                 ![p].unitAmount = row.unitAmount,
                                 ![p].awardedAt = Date]
       /\ Goto(p, "award_buzz")
    /\ UNCHANGED <<db, arg, observed>>

\* tx.bountyBenefactor.update: takes the row lock; the write is applied at commit.
AwardUpdate(p) ==
    /\ pc[p] = "award_update"
    /\ ~RowLocked(p)
    /\ LET row == bountyBenefactor[KeyOf(p)] IN
       /\ local' = [local EXCEPT ![p].currency = row.currency,
                                 ![p].unitAmount = row.unitAmount,
                                 ![p].awardedAt = Date]
       /\ Goto(p, IF row.currency = "BUZZ" THEN "award_buzz" ELSE "award_commit")
    /\ UNCHANGED <<db, arg, observed>>

\* createBuzzTransaction after an update made through dbWrite instead of tx: the
\* update stays when the call throws.
AwardBuzz_NoRollback(p) ==
    /\ pc[p] = "award_buzz"
    /\ \/ /\ buzzTransactions' = Append(buzzTransactions,
                [fromAccountId |-> SystemAccount, toAccountId |-> local[p].userId,
                 amount |-> local[p].unitAmount, type |-> "Bounty"])
          /\ Goto(p, "award_commit")
          /\ UNCHANGED bountyBenefactor
       \/ /\ Return(p, "Error")
          /\ bountyBenefactor' = [bountyBenefactor EXCEPT ![KeyOf(p)] =
                 [@ EXCEPT !.awardedToId = arg[p].id, !.awardedAt = local[p].awardedAt]]
          /\ UNCHANGED buzzTransactions
    /\ UNCHANGED <<bountyEntry, nextEntryId, file, imageConnection, image, nextImageId,
                   bounty, arg, local, observed>>

\* createBuzzTransaction: the transfer is made, or the call throws and the
\* transaction rolls back.
AwardBuzz(p) ==
    /\ pc[p] = "award_buzz"
    /\ \/ /\ buzzTransactions' = Append(buzzTransactions,
                [fromAccountId |-> SystemAccount, toAccountId |-> local[p].userId,
                 amount |-> local[p].unitAmount, type |-> "Bounty"])
          /\ Goto(p, "award_commit")
       \/ /\ Return(p, "Error")
          /\ UNCHANGED buzzTransactions
    /\ UNCHANGED <<bountyEntry, nextEntryId, file, imageConnection, image, nextImageId,
                   bountyBenefactor, bounty, arg, local, observed>>

\* The transaction commits: the update becomes visible and the lock is released.
AwardCommit(p) ==
    /\ pc[p] = "award_commit"
    /\ bountyBenefactor' = [bountyBenefactor EXCEPT ![KeyOf(p)] =
           [@ EXCEPT !.awardedToId = arg[p].id, !.awardedAt = local[p].awardedAt]]
    /\ Goto(p, "award_check")
    /\ UNCHANGED <<bountyEntry, nextEntryId, file, imageConnection, image, nextImageId,
                   bounty, buzzTransactions, arg, local, observed>>

\* if (unawardedBountyBenefactors) instead of if (!unawardedBountyBenefactors)
AwardCheck_Inverted(p) ==
    /\ pc[p] = "award_check"
    /\ IF unawardedBountyBenefactors(local[p].bountyId) # {}
       THEN Goto(p, "award_complete")
       ELSE Return(p, "ok")
    /\ UNCHANGED <<db, arg, local, observed>>

\* dbRead.bountyBenefactor.findFirst after the commit.
AwardCheck(p) ==
    /\ pc[p] = "award_check"
    /\ IF unawardedBountyBenefactors(local[p].bountyId) = {}
       THEN Goto(p, "award_complete")
       ELSE Return(p, "ok")
    /\ UNCHANGED <<db, arg, local, observed>>

\* dbWrite.bounty.update({ data: { complete: true } }) and the return.
AwardComplete(p) ==
    /\ pc[p] = "award_complete"
    /\ bounty' = [bounty EXCEPT ![local[p].bountyId] = CompletedBounty(local[p].bountyId)]
    /\ Return(p, "ok")
    /\ UNCHANGED <<bountyEntry, nextEntryId, file, imageConnection, image, nextImageId,
                   bountyBenefactor, buzzTransactions, arg, local, observed>>

awardBountyEntry(p) ==
    \/ AwardFindEntry(p)
    \/ AwardFindBenefactor(p)
    \/ AwardUpdate(p)
    \/ AwardBuzz(p)
    \/ AwardCommit(p)
    \/ AwardCheck(p)
    \/ AwardComplete(p)

\* ----------------------------------------------------- deleteBountyEntry
\* The request arrives with { id }; dbRead.bountyEntry.findUniqueOrThrow
DeleteFindEntry(p) ==
    /\ pc[p] = "idle"
    /\ CanBegin(p)
    /\ \E id \in EntryIds :
         /\ arg' = [arg EXCEPT ![p] = [op |-> "delete", id |-> id, userId |-> Null,
                                     isModerator |-> FALSE]]
         /\ observed' = [observed EXCEPT ![p] = Observe(id, Null)]
         /\ IF id \notin DOMAIN dbRead.bountyEntry
            THEN Return(p, "NotFound") /\ UNCHANGED local
            ELSE /\ Goto(p, "delete_earned")
                 /\ local' = [local EXCEPT ![p].bountyId = dbRead.bountyEntry[id].bountyId,
                                           ![p].userId = dbRead.bountyEntry[id].userId]
    /\ UNCHANGED db

\* const [award] = await getBountyEntryEarnedBuzz({ ids: [entry.id] }) and the
\* check on it; with no result row, award is undefined and reading its field throws.
DeleteEarned(p) ==
    /\ pc[p] = "delete_earned"
    /\ LET data == getBountyEntryEarnedBuzz({arg[p].id}, "BUZZ") IN
       IF arg[p].id \notin DOMAIN data
       THEN Return(p, "Error")
       ELSE IF HasBeenAwarded(data[arg[p].id])
       THEN Return(p, "BadRequest")
       ELSE Goto(p, "delete_tx")
    /\ UNCHANGED <<db, arg, local, observed>>

\* The delete transaction without tx.image.deleteMany.
DeleteTx_KeepsImages(p) ==
    /\ pc[p] = "delete_tx"
    /\ LET id == arg[p].id IN
       IF id \notin DOMAIN bountyEntry
       THEN /\ Return(p, "NotFound")
            /\ UNCHANGED <<bountyEntry, file, imageConnection>>
       ELSE /\ bountyEntry' = [e \in DOMAIN bountyEntry \ {id} |-> bountyEntry[e]]
            /\ file' = {f \in file : f.entityId # id}
            /\ imageConnection' = {c \in imageConnection : c.entityId # id}
            /\ Return(p, "ok")
    /\ UNCHANGED <<image, nextEntryId, nextImageId, bountyBenefactor, bounty,
                   buzzTransactions, arg, local, observed>>

\* The delete transaction, visible as a whole at its commit: the entry, its files,
\* its image connections and the images they name.
DeleteTx(p) ==
    /\ pc[p] = "delete_tx"
    /\ LET id == arg[p].id IN
       IF id \notin DOMAIN bountyEntry
       THEN /\ Return(p, "NotFound")
            /\ UNCHANGED <<bountyEntry, file, imageConnection, image>>
       ELSE LET images == {c.imageId : c \in {x \in imageConnection : x.entityId = id}} IN
            /\ bountyEntry' = [e \in DOMAIN bountyEntry \ {id} |-> bountyEntry[e]]
            /\ file' = {f \in file : f.entityId # id}
            /\ imageConnection' = {c \in imageConnection : c.entityId # id}
            /\ image' = image \ images
            /\ Return(p, "ok")
    /\ UNCHANGED <<nextEntryId, nextImageId, bountyBenefactor, bounty, buzzTransactions,
                   arg, local, observed>>

deleteBountyEntry(p) ==
    \/ DeleteFindEntry(p)
    \/ DeleteEarned(p)
    \/ DeleteTx(p)

\* ----------------------------------------------------- upsertBountyEntry
\* updateEntityFiles: the entity's files become the ones given.
updateEntityFiles(entityId, files) ==
    file' = {f \in file : f.entityId # entityId} \cup
            {FileRow(entityId, n, FALSE, Undefined) : n \in files}

\* createEntityImages: one new image per image given, connected to the entity.
createEntityImages(entityId, images) ==
    IF images = 0
    THEN UNCHANGED <<image, imageConnection, nextImageId>>
    ELSE /\ image' = image \cup {nextImageId}
         /\ imageConnection' = imageConnection \cup
                {[entityId |-> entityId, imageId |-> nextImageId]}
         /\ nextImageId' = nextImageId + 1

\* One transaction, visible as a whole at its commit. files = {"absent"} stands
\* for an input without files, images = 0 for one without images.
upsertBountyEntry(p) ==
    /\ pc[p] = "idle"
    /\ CanBegin(p)
    /\ \E id \in {Null} \cup EntryIds, bountyId \in Bounties, userId \in Users,
          files \in {{"absent"}} \cup SUBSET FileNames,
          images \in 0..1 :
         /\ images = 1 => nextImageId <= MaxImageId
         /\ arg' = [arg EXCEPT ![p] = [op |-> "upsert", id |-> id, userId |-> Null,
                                     isModerator |-> FALSE]]
         /\ IF id # Null
            THEN IF id \notin DOMAIN bountyEntry
                 THEN /\ Return(p, "NotFound")
                      /\ UNCHANGED <<bountyEntry, nextEntryId, file, imageConnection,
                                     image, nextImageId>>
                 ELSE /\ UNCHANGED bountyEntry
                      /\ IF files # {"absent"}
                         THEN updateEntityFiles(id, files)
                         ELSE UNCHANGED file
                      /\ createEntityImages(id, images)
                      /\ UNCHANGED nextEntryId
                      /\ Return(p, "ok")
            ELSE /\ nextEntryId <= MaxEntryId
                 /\ bountyEntry' = bountyEntry @@ (nextEntryId :>
                        [bountyId |-> bountyId, userId |-> userId])
                 /\ nextEntryId' = nextEntryId + 1
                 /\ IF files # {"absent"}
                    THEN updateEntityFiles(nextEntryId, files)
                    ELSE UNCHANGED file
                 /\ createEntityImages(nextEntryId, images)
                 /\ Return(p, "ok")
    /\ UNCHANGED <<bountyBenefactor, bounty, buzzTransactions, local, observed>>

\* ------------------------------------------- getBountyEntryFilteredFiles
\* getFilesByEntity({ id, type: 'BountyEntry' }): the File rows of the entity.
getFilesByEntity(id) == {f \in file : f.entityId = id}

\* bountyEntry.userId == userId, which holds for null and undefined
IsOwner_Loose(entryUserId, userId) ==
    \/ entryUserId = userId
    \/ entryUserId = Null /\ userId = Undefined

\* bountyEntry.userId === userId
IsOwner(entryUserId, userId) == entryUserId = userId

\* details.unlockAmount ?? 0
UnlockAmount(details) ==
    IF details.unlockAmount = Undefined THEN 0 ELSE details.unlockAmount

\* if (awardedUnitAmount <= (details.unlockAmount ?? 0)) hasFullAccess = false
HasFullAccess_AtThreshold(details, benefactor, id, awardedUnitAmount) ==
    IF awardedUnitAmount <= UnlockAmount(details) THEN FALSE
    ELSE IF details.benefactorsOnly THEN benefactor.awardedToId = id
    ELSE TRUE

\* hasFullAccess of one file: benefactor is the requester's row, NoRow for null
\* (benefactor?.awardedToId is then undefined and equals no id).
HasFullAccess(details, benefactor, id, awardedUnitAmount) ==
    IF awardedUnitAmount < UnlockAmount(details) THEN FALSE
    ELSE IF details.benefactorsOnly THEN benefactor.awardedToId = id
    ELSE TRUE

\* benefactor?.currency ?? Currency.BUZZ
CurrencyOf(benefactor) == IF benefactor = NoRow THEN "BUZZ" ELSE benefactor.currency

\* The request arrives with { id, userId, isModerator }; findUniqueOrThrow,
\* getFilesByEntity and the return of every file to the owner or a moderator.
ListFindEntry(p) ==
    /\ pc[p] = "idle"
    /\ CanBegin(p)
    /\ \E id \in EntryIds, userId \in Users \cup {Undefined}, isModerator \in BOOLEAN :
         /\ arg' = [arg EXCEPT ![p] = [op |-> "list", id |-> id, userId |-> userId,
                                     isModerator |-> isModerator]]
         /\ IF id \notin DOMAIN dbRead.bountyEntry
            THEN Return(p, "NotFound") /\ UNCHANGED local
            ELSE LET entry == dbRead.bountyEntry[id] IN
                 /\ local' = [local EXCEPT ![p].bountyId = entry.bountyId,
                                           ![p].userId = entry.userId,
                                           ![p].files = getFilesByEntity(id)]
                 /\ IF IsOwner(entry.userId, userId) \/ isModerator
                    THEN Return(p, "ok")
                    ELSE Goto(p, "list_benefactor")
    /\ UNCHANGED <<db, observed>>

\* !userId ? null : dbRead.bountyBenefactor.findUnique
ListBenefactor(p) ==
    /\ pc[p] = "list_benefactor"
    /\ local' = [local EXCEPT ![p].benefactor =
           IF arg[p].userId = Undefined THEN NoRow
           ELSE dbRead.bountyBenefactor[<<local[p].bountyId, arg[p].userId>>]]
    /\ Goto(p, "list_earned")
    /\ UNCHANGED <<db, arg, observed>>

\* getBountyEntryEarnedBuzz in the benefactor's currency and files.map; with no
\* result row awardedBounty is undefined, and the callback throws on the first file.
ListEarned(p) ==
    /\ pc[p] = "list_earned"
    /\ LET id == arg[p].id
           data == getBountyEntryEarnedBuzz({id}, CurrencyOf(local[p].benefactor))
       IN IF id \notin DOMAIN data /\ local[p].files # {}
          THEN Return(p, "Error") /\ UNCHANGED local
          ELSE /\ local' = [local EXCEPT ![p].files =
                      {[f EXCEPT !.url =
                            IF HasFullAccess(f, local[p].benefactor, id, data[id])
                            THEN f.url ELSE NullUrl] : f \in local[p].files}]
               /\ Return(p, "ok")
    /\ UNCHANGED <<db, arg, observed>>

getBountyEntryFilteredFiles(p) ==
    \/ ListFindEntry(p)
    \/ ListBenefactor(p)
    \/ ListEarned(p)

Next == \E p \in Calls : awardBountyEntry(p) \/ deleteBountyEntry(p) \/ upsertBountyEntry(p)

Spec == Init /\ [][Next]_vars

\* The same requests over a database whose pledges are all in BUZZ.
InitBuzz ==
    /\ Init
    /\ \A k \in BenefactorKeys : bountyBenefactor[k].currency \in {"none", "BUZZ"}

SpecBuzz == InitBuzz /\ [][Next]_vars

\* Award, delete and file listing requests over entries whose files differ in
\* benefactorsOnly and unlockAmount, with pledges of 100 and 50.
InitFiles ==
    /\ bountyEntry = (1 :> [bountyId |-> 1, userId |-> 2]) @@
                     (2 :> [bountyId |-> 1, userId |-> Null])
    /\ nextEntryId = 3
    /\ file = {FileRow(1, "f1", FALSE, Undefined), FileRow(1, "f2", FALSE, 100),
               FileRow(1, "f3", TRUE, Undefined), FileRow(1, "f4", TRUE, 100),
               FileRow(2, "f1", TRUE, Undefined), FileRow(2, "f2", FALSE, 100)}
    /\ imageConnection = {[entityId |-> 1, imageId |-> 1]}
    /\ image = {1}
    /\ nextImageId = 2
    /\ \E c1 \in Currencies, r2 \in {NoRow, Pledge(50, "BUZZ")} :
         bountyBenefactor = [k \in BenefactorKeys |->
             IF k = <<1, 1>> THEN Pledge(100, c1)
             ELSE IF k = <<1, 2>> THEN r2
             ELSE IF k = <<2, 2>> THEN Pledge(50, "BUZZ")
             ELSE NoRow]
    /\ bounty = [b \in Bounties |-> [complete |-> FALSE]]
    /\ buzzTransactions = <<>>
    /\ pc = [p \in Calls |-> "idle"]
    /\ arg = [p \in Calls |-> NoArg]
    /\ local = [p \in Calls |-> NoLocal]
    /\ result = [p \in Calls |-> "none"]
    /\ observed = [p \in Calls |-> NoObserved]

NextFiles ==
    \E p \in Calls :
        awardBountyEntry(p) \/ deleteBountyEntry(p) \/ getBountyEntryFilteredFiles(p)

SpecFiles == InitFiles /\ [][NextFiles]_vars

\* ------------------------------------------------------------ properties
\* Request p takes the step.
StepOf(p) == pc'[p] # pc[p]

\* The request is an award whose transaction has committed.
AwardCommitted(p) ==
    /\ arg[p].op = "award"
    /\ pc[p] \in {"award_check", "award_complete", "done"}
    /\ result[p] \in {"none", "ok"}
    /\ local[p].awardedAt # Null

\* C1: once a benefactor's awardedToId is set, no step of any request changes it.
C1_AwardedToIdNeverChanges ==
    [][\A k \in BenefactorKeys :
         bountyBenefactor[k].awardedToId # Null
             => bountyBenefactor'[k].awardedToId = bountyBenefactor[k].awardedToId]_vars

\* C2: an award request that arrives when the caller's row of the entry's bounty is
\* already awarded never gets past the check on awardedToId, returns BadRequest
\* (InvalidState), and none of its steps changes a benefactor, a bounty or the ledger.
C2_SecondAwardFails ==
    /\ [](\A p \in Calls :
            (arg[p].op = "award" /\ observed[p].row = "awarded")
                => /\ pc[p] \in {"award_findBenefactor", "done"}
                   /\ pc[p] = "done" => result[p] = "BadRequest")
    /\ [][\A p \in Calls :
            (StepOf(p) /\ arg'[p].op = "award" /\ observed'[p].row = "awarded")
                => UNCHANGED <<bountyBenefactor, bounty, buzzTransactions>>]_vars

\* A second award by the same user on a bounty that is not complete, for an entry
\* that has an owner, has been refused.
C2_Witness ==
    \E p \in Calls :
        /\ arg[p].op = "award"
        /\ observed[p].row = "awarded"
        /\ ~observed[p].complete
        /\ arg[p].id \in DOMAIN bountyEntry
        /\ bountyEntry[arg[p].id].userId # Null
        /\ pc[p] = "done"
        /\ result[p] = "BadRequest"

\* C3: of two award requests of one user on one bounty, at most one commits.
C3_SameBenefactorAwardsSerialized ==
    \A p, q \in Calls :
        (p # q /\ AwardCommitted(p) /\ AwardCommitted(q)
           /\ arg[p].userId = arg[q].userId)
            => local[p].bountyId # local[q].bountyId

\* C4: an award request that arrives for an entry of a bounty that is already
\* complete returns BadRequest (InvalidState) at once, whatever the caller's row
\* is, and changes no benefactor, no bounty and not the ledger.
C4_AwardOnCompleteBountyFails ==
    /\ [](\A p \in Calls :
            (arg[p].op = "award" /\ observed[p].complete)
                => pc[p] = "done" /\ result[p] = "BadRequest")
    /\ [][\A p \in Calls :
            (StepOf(p) /\ arg'[p].op = "award" /\ observed'[p].complete)
                => UNCHANGED <<bountyBenefactor, bounty, buzzTransactions>>]_vars

\* An award on a complete bounty by a user with no benefactor row, for an entry
\* that has an owner, has been refused.
C4_Witness ==
    \E p \in Calls :
        /\ arg[p].op = "award"
        /\ observed[p].complete
        /\ observed[p].row = "absent"
        /\ arg[p].id \in DOMAIN bountyEntry
        /\ bountyEntry[arg[p].id].userId # Null
        /\ result[p] = "BadRequest"

\* The benefactors of a bounty that have not awarded.
Unawarded(b) ==
    {k \in BenefactorKeys :
        k[1] = b /\ bountyBenefactor[k] # NoRow /\ bountyBenefactor[k].awardedToId = Null}

NoneUnawarded(b) == Unawarded(b) = {}

C6_CompleteImpliesAllAwarded ==
    \A b \in Bounties : bounty[b].complete => NoneUnawarded(b)

\* A bounty with two benefactors is complete while another request is in flight.
C6_Witness ==
    \E b \in Bounties :
        /\ bounty[b].complete
        /\ Cardinality({k \in BenefactorKeys : k[1] = b /\ RowExists(k)}) = 2
        /\ \E p \in Calls : pc[p] \notin {"idle", "done"}

\* Requests p and q have committed awards of two different benefactors of one bounty.
AwardedTwoRows(p, q) ==
    /\ p # q
    /\ AwardCommitted(p) /\ AwardCommitted(q)
    /\ local[p].bountyId = local[q].bountyId
    /\ arg[p].userId # arg[q].userId

C8_CompleteIsMonotonic ==
    [][\A b \in Bounties : bounty[b].complete => bounty'[b].complete]_vars

\* A request that arrived after the completion of the entry's bounty has returned.
C8_Witness ==
    \E p \in Calls :
        /\ observed[p].complete
        /\ pc[p] = "done"
        /\ \E b \in Bounties : bounty[b].complete

\* C9: a delete request that arrives for an entry whose awarded pledges sum to more
\* than zero returns BadRequest (InvalidState) and removes nothing.
C9_DeleteOfAwardedEntryFails ==
    /\ [](\A p \in Calls :
            (arg[p].op = "delete" /\ observed[p].awarded > 0 /\ pc[p] = "done")
                => result[p] = "BadRequest")
    /\ [][\A p \in Calls :
            (StepOf(p) /\ arg'[p].op = "delete" /\ observed'[p].awarded > 0)
                => UNCHANGED <<bountyEntry, file, imageConnection, image>>]_vars

\* C10: no benefactor is awarded to an entry that is gone, and no step removes an
\* entry that a benefactor is awarded to.
C10_DeletedOnlyBeforeAward ==
    /\ [](\A k \in BenefactorKeys :
            bountyBenefactor[k].awardedToId # Null
                => bountyBenefactor[k].awardedToId \in DOMAIN bountyEntry)
    /\ [][\A e \in DOMAIN bountyEntry :
            e \notin DOMAIN bountyEntry'
                => ~\E k \in BenefactorKeys : bountyBenefactor[k].awardedToId = e]_vars

\* The pledges of every currency awarded to entry id.
AwardedTotal(id) ==
    SumUnitAmount({k \in BenefactorKeys :
        RowExists(k) /\ bountyBenefactor[k].awardedToId = id})

\* C11: a delete of an existing entry whose awarded pledges sum to zero passes the
\* check on the earned amount and returns ok; the step that removes the entry removes
\* with it every file of the entry, every image connection of the entry and the images
\* those connections name, and leaves the entries, files, connections and images of
\* other entries as they were; no state holds a file or a connection of an entry that
\* is gone, a connection to an image that is gone, or an image without a connection.
C11_DeleteRemovesAllAtOnce ==
    /\ [](/\ \A f \in file : f.entityId \in DOMAIN bountyEntry
          /\ \A c \in imageConnection :
                c.entityId \in DOMAIN bountyEntry /\ c.imageId \in image
          /\ \A i \in image : \E c \in imageConnection : c.imageId = i)
    /\ [][\A p \in Calls :
            (StepOf(p) /\ pc[p] = "delete_earned" /\ arg[p].id \in DOMAIN bountyEntry
               /\ AwardedTotal(arg[p].id) = 0)
                => pc'[p] = "delete_tx"]_vars
    /\ [][\A p \in Calls :
            (StepOf(p) /\ pc[p] = "delete_tx" /\ arg[p].id \in DOMAIN bountyEntry)
                => LET id == arg[p].id
                       linked == {c.imageId : c \in {x \in imageConnection : x.entityId = id}}
                   IN /\ result'[p] = "ok"
                      /\ id \notin DOMAIN bountyEntry'
                      /\ \A e \in DOMAIN bountyEntry \ {id} :
                            e \in DOMAIN bountyEntry' /\ bountyEntry'[e] = bountyEntry[e]
                      /\ file' = {f \in file : f.entityId # id}
                      /\ imageConnection' = {c \in imageConnection : c.entityId # id}
                      /\ image' = image \ linked
                      /\ \A c \in imageConnection' : c.imageId \in image']_vars

\* A delete has returned ok and removed an entry that had a file and an image, while
\* another entry keeps a file and an image of its own.
C11_Witness ==
    \E p \in Calls :
        /\ arg[p].op = "delete"
        /\ pc[p] = "done"
        /\ result[p] = "ok"
        /\ observed[p].awarded = 0
        /\ arg[p].id = 1
        /\ 1 \notin DOMAIN bountyEntry
        /\ \E f \in file : f.entityId # 1
        /\ \E c \in imageConnection : c.entityId # 1 /\ c.imageId \in image

\* The award request is past the switch on the currency in its transaction.
PastSwitch(p) ==
    /\ arg[p].op = "award"
    /\ \/ pc[p] \in {"award_commit", "award_check", "award_complete"}
       \/ pc[p] = "done" /\ result[p] = "ok"

\* The award requests past the switch whose benefactor row is in BUZZ.
Paying == {p \in Calls : PastSwitch(p) /\ bountyBenefactor[KeyOf(p)].currency = "BUZZ"}

\* The transfer the claim expects of award request p.
TransferOf(p) ==
    [fromAccountId |-> 0, toAccountId |-> local[p].userId,
     amount |-> bountyBenefactor[KeyOf(p)].unitAmount, type |-> "Bounty"]

\* How many times the ledger holds transfer t.
Transfers(t) == Cardinality({i \in 1..Len(buzzTransactions) : buzzTransactions[i] = t})

\* C12: the ledger holds one transfer for each award request past the switch whose
\* benefactor row is in BUZZ, of that row's unitAmount from account 0 to the owner of
\* the entry with type Bounty, and nothing else: a request whose row is in another
\* currency adds no transfer.
C12_OneTransferPerBuzzAward ==
    /\ Len(buzzTransactions) = Cardinality(Paying)
    /\ \A p \in Paying :
          Transfers(TransferOf(p)) =
              Cardinality({q \in Paying : TransferOf(q) = TransferOf(p)})

\* An award of a BUZZ pledge and an award of a pledge in another currency have both
\* returned ok, and the ledger holds one transfer.
C12_Witness ==
    \E p, q \in Calls :
        /\ PastSwitch(p) /\ pc[p] = "done"
        /\ PastSwitch(q) /\ pc[q] = "done"
        /\ bountyBenefactor[KeyOf(p)].currency = "BUZZ"
        /\ bountyBenefactor[KeyOf(q)].currency = "USD"
        /\ Len(buzzTransactions) = 1

\* C13: when createBuzzTransaction throws, the award request ends at that step with
\* an error and the step changes no benefactor, no bounty and not the ledger; the
\* request never runs the completion check, and the row it meant to award keeps
\* awardedToId and awardedAt null unless another request's transaction awarded it.
C13_LedgerFailureRollsBack ==
    /\ [][\A p \in Calls :
            (StepOf(p) /\ pc[p] = "award_buzz" /\ buzzTransactions' = buzzTransactions)
                => /\ pc'[p] = "done"
                   /\ result'[p] = "Error"
                   /\ UNCHANGED <<bountyBenefactor, bounty>>]_vars
    /\ [](\A p \in Calls :
            (arg[p].op = "award" /\ pc[p] = "done" /\ result[p] = "Error")
                => \/ /\ bountyBenefactor[KeyOf(p)].awardedToId = Null
                      /\ bountyBenefactor[KeyOf(p)].awardedAt = Null
                   \/ \E q \in Calls \ {p} : AwardCommitted(q) /\ KeyOf(q) = KeyOf(p))

\* An award has failed in createBuzzTransaction: its row, the only unawarded one of
\* the bounty, is still unawarded, the ledger is empty and the bounty is not complete.
C13_Witness ==
    \E p \in Calls :
        /\ arg[p].op = "award"
        /\ pc[p] = "done"
        /\ result[p] = "Error"
        /\ bountyBenefactor[KeyOf(p)].awardedToId = Null
        /\ bountyBenefactor[KeyOf(p)].awardedAt = Null
        /\ buzzTransactions = <<>>
        /\ ~bounty[local[p].bountyId].complete
        /\ unawardedBountyBenefactors(local[p].bountyId) = {KeyOf(p)}

\* An award request ends at this step with error kind and changes no benefactor, no
\* bounty and not the ledger.
FailsWith(p, kind) ==
    /\ pc'[p] = "done"
    /\ result'[p] = kind
    /\ UNCHANGED <<bountyBenefactor, bounty, buzzTransactions>>

\* C14 as stated: an award for an entry that does not exist or has no owner fails
\* with BadRequest (InvalidState), an award by a user without a benefactor row of the
\* entry's bounty fails with NotFound, and neither changes a benefactor, a bounty or
\* the ledger.
C14_ErrorKindsAsStated ==
    /\ [][\A p \in Calls :
            (StepOf(p) /\ pc[p] = "idle" /\ arg'[p].op = "award"
               /\ (\/ arg'[p].id \notin DOMAIN bountyEntry
                   \/ bountyEntry[arg'[p].id].userId = Null))
                => FailsWith(p, "BadRequest")]_vars
    /\ [][\A p \in Calls :
            (StepOf(p) /\ pc[p] = "award_findBenefactor"
               /\ ~RowExists(<<local[p].bountyId, arg[p].userId>>))
                => FailsWith(p, "NotFound")]_vars

\* C14: an award for an entry that does not exist fails with NotFound, one for an
\* entry without owner fails with BadRequest (InvalidState), and one for an entry
\* with an owner, in a bounty that is not complete, by a user without a benefactor
\* row of that bounty fails with NotFound; none of them changes a benefactor, a
\* bounty or the ledger.
C14_ErrorKinds ==
    /\ [][\A p \in Calls :
            (StepOf(p) /\ pc[p] = "idle" /\ arg'[p].op = "award"
               /\ arg'[p].id \notin DOMAIN bountyEntry)
                => FailsWith(p, "NotFound")]_vars
    /\ [][\A p \in Calls :
            (StepOf(p) /\ pc[p] = "idle" /\ arg'[p].op = "award"
               /\ arg'[p].id \in DOMAIN bountyEntry
               /\ bountyEntry[arg'[p].id].userId = Null)
                => FailsWith(p, "BadRequest")]_vars
    /\ [][\A p \in Calls :
            (StepOf(p) /\ pc[p] = "award_findBenefactor"
               /\ ~RowExists(<<local[p].bountyId, arg[p].userId>>))
                => FailsWith(p, "NotFound")]_vars
    /\ [](\A p \in Calls :
            pc[p] = "award_findBenefactor"
                => /\ local[p].userId # Null
                   /\ ~observed[p].complete)

\* An award for an entry that does not exist and an award by a user without a
\* benefactor row, for an entry with an owner in a bounty that is not complete, have
\* both returned NotFound.
C14_Witness ==
    \E p, q \in Calls :
        /\ arg[p].op = "award" /\ observed[p] = NoObserved
        /\ pc[p] = "done" /\ result[p] = "NotFound"
        /\ arg[q].op = "award" /\ observed[q].row = "absent"
        /\ ~observed[q].complete
        /\ local[q].userId # Null
        /\ pc[q] = "done" /\ result[q] = "NotFound"

\* The pledges of one currency awarded to entry id.
AwardedIn(id, currency) ==
    SumUnitAmount({k \in BenefactorKeys :
        /\ RowExists(k)
        /\ bountyBenefactor[k].awardedToId = id
        /\ bountyBenefactor[k].currency = currency})

\* The listing request returns at this step one descriptor for each file it read,
\* with the URL of the file where unlocked(f) holds and a null URL elsewhere, and
\* every other field as in the file.
ReturnsUrlsWhere(p, unlocked(_)) ==
    /\ \A f \in local[p].files :
          IF unlocked(f) THEN f \in local'[p].files
          ELSE [f EXCEPT !.url = NullUrl] \in local'[p].files
    /\ Cardinality(local'[p].files) = Cardinality(local[p].files)

\* The file is not benefactors-only, or the row the request read for the requester
\* is awarded to the entry.
OpenTo(p, f) == ~f.benefactorsOnly \/ local[p].benefactor.awardedToId = arg[p].id

\* amount reaches the file's unlockAmount, 0 when the file has none.
Reaches(amount, f) == amount >= (IF f.unlockAmount = Undefined THEN 0 ELSE f.unlockAmount)

\* C15 as stated: a listing for a requester who is neither owner nor moderator
\* returns a file's URL if and only if the file is open to the requester and the
\* pledges of every currency awarded to the entry reach the file's unlockAmount;
\* otherwise the URL is null and the other fields are unchanged.
C15_UrlIffTotalReachesThreshold ==
    [][\A p \in Calls :
         (StepOf(p) /\ pc[p] = "list_earned" /\ result'[p] = "ok")
             => LET unlocked(f) == OpenTo(p, f) /\ Reaches(AwardedTotal(arg[p].id), f)
                IN ReturnsUrlsWhere(p, unlocked)]_vars

\* C15: a listing for a requester who is neither owner nor moderator returns a
\* file's URL if and only if the file is open to the requester and the pledges
\* awarded to the entry in the currency of the requester's benefactor row, BUZZ
\* when the requester has none, reach the file's unlockAmount; otherwise the URL is
\* null and the other fields are unchanged. Such a request is neither the owner's
\* nor a moderator's.
C15_UrlIffEarnedReachesThreshold ==
    /\ [][\A p \in Calls :
            (StepOf(p) /\ pc[p] = "list_earned" /\ result'[p] = "ok")
                => LET currency == IF local[p].benefactor = NoRow THEN "BUZZ"
                                   ELSE local[p].benefactor.currency
                       unlocked(f) == /\ OpenTo(p, f)
                                      /\ Reaches(AwardedIn(arg[p].id, currency), f)
                   IN ReturnsUrlsWhere(p, unlocked)]_vars
    /\ [](\A p \in Calls :
            pc[p] \in {"list_benefactor", "list_earned"}
                => ~arg[p].isModerator /\ arg[p].userId # local[p].userId)

\* A requester who is neither owner nor moderator has listed the files of an entry
\* awarded 50: with unlockAmount 100 the URL is null, without unlockAmount the file
\* that is not benefactors-only has its URL.
C15_Witness ==
    \E p \in Calls :
        /\ arg[p].op = "list"
        /\ pc[p] = "done" /\ result[p] = "ok"
        /\ ~arg[p].isModerator /\ arg[p].userId # local[p].userId
        /\ AwardedIn(arg[p].id, "BUZZ") = 50
        /\ local[p].benefactor # NoRow /\ local[p].benefactor.currency = "BUZZ"
        /\ \E d \in local[p].files :
              ~d.benefactorsOnly /\ d.unlockAmount = 100 /\ d.url = NullUrl
        /\ \E d \in local[p].files :
              ~d.benefactorsOnly /\ d.unlockAmount = Undefined /\ d.url = d.name

\* A requester whose own pledge of 100 is awarded to the entry has listed its files:
\* the benefactors-only file with unlockAmount 100 has its URL.
C15_WitnessUnlocked ==
    \E p \in Calls :
        /\ arg[p].op = "list"
        /\ pc[p] = "done" /\ result[p] = "ok"
        /\ ~arg[p].isModerator /\ arg[p].userId # local[p].userId
        /\ local[p].benefactor.awardedToId = arg[p].id
        /\ \E d \in local[p].files :
              d.benefactorsOnly /\ d.unlockAmount = 100 /\ d.url = d.name

\* C16: a listing of an existing entry requested by its owner or by a moderator
\* returns at once every file of the entry as it is stored, URL included, whatever
\* the files' flags and thresholds and whatever was awarded; a request without
\* userId that is not a moderator's never takes that return, even for an entry
\* without owner.
C16_OwnerAndModeratorSeeAll ==
    /\ [][\A p \in Calls :
            (StepOf(p) /\ pc[p] = "idle" /\ arg'[p].op = "list"
               /\ arg'[p].id \in DOMAIN bountyEntry
               /\ (\/ arg'[p].isModerator
                   \/ /\ arg'[p].userId \in Users
                      /\ arg'[p].userId = bountyEntry[arg'[p].id].userId))
                => /\ pc'[p] = "done"
                   /\ result'[p] = "ok"
                   /\ local'[p].files = {f \in file : f.entityId = arg'[p].id}]_vars
    /\ [][\A p \in Calls :
            (StepOf(p) /\ pc[p] = "idle" /\ arg'[p].op = "list"
               /\ arg'[p].id \in DOMAIN bountyEntry
               /\ arg'[p].userId = Undefined /\ ~arg'[p].isModerator)
                => pc'[p] = "list_benefactor"]_vars

\* The owner of an entry to which nothing is awarded has listed its files and got
\* the URL of a benefactors-only file with unlockAmount 100; a request without
\* userId for an entry without owner has got a null URL.
C16_Witness ==
    \E p, q \in Calls :
        /\ arg[p].op = "list" /\ ~arg[p].isModerator
        /\ arg[p].userId = local[p].userId
        /\ pc[p] = "done" /\ result[p] = "ok"
        /\ AwardedTotal(arg[p].id) = 0
        /\ \E d \in local[p].files :
              d.benefactorsOnly /\ d.unlockAmount = 100 /\ d.url = d.name
        /\ arg[q].op = "list" /\ ~arg[q].isModerator
        /\ arg[q].userId = Undefined /\ local[q].userId = Null
        /\ pc[q] = "done" /\ result[q] = "ok"
        /\ \E d \in local[q].files : d.url = NullUrl

\* The BUZZ benefactors that are awarded.
AwardedBuzzBenefactors ==
    {k \in BenefactorKeys :
        /\ RowExists(k)
        /\ bountyBenefactor[k].currency = "BUZZ"
        /\ bountyBenefactor[k].awardedToId # Null}

RECURSIVE TotalAmount(_)
TotalAmount(transfers) ==
    IF transfers = <<>> THEN 0
    ELSE Head(transfers).amount + TotalAmount(Tail(transfers))

\* C17, on the states where no request is in flight: the ledger holds as many
\* transfers as there are awarded BUZZ benefactors, and their amounts sum to the
\* unitAmount of those benefactors.
C17_LedgerMatchesAwards ==
    (\A p \in Calls : pc[p] \in {"idle", "done"})
        => /\ Len(buzzTransactions) = Cardinality(AwardedBuzzBenefactors)
           /\ TotalAmount(buzzTransactions) = SumUnitAmount(AwardedBuzzBenefactors)

\* C18: every awarded benefactor names an entry of its own bounty, awardedAt is set
\* exactly when awardedToId is, and a step of an award request changes no benefactor
\* row but the one of the entry's bounty and the awarding user.
C18_AwardKeepsRowsConsistent ==
    /\ [](\A k \in BenefactorKeys :
            /\ bountyBenefactor[k].awardedToId # Null
                  => /\ bountyBenefactor[k].awardedToId \in DOMAIN bountyEntry
                     /\ bountyEntry[bountyBenefactor[k].awardedToId].bountyId = k[1]
            /\ bountyBenefactor[k].awardedAt # Null
                  <=> bountyBenefactor[k].awardedToId # Null)
    /\ [][\A p \in Calls :
            (StepOf(p) /\ arg'[p].op = "award")
                => \A k \in BenefactorKeys \ {<<local'[p].bountyId, arg'[p].userId>>} :
                      bountyBenefactor'[k] = bountyBenefactor[k]]_vars

====
